---- MODULE Spec2Model ----
(***************************************************************************)
(* A model of the Yak ComfyUI n8n node (nodes/YakComfyUI/YakComfyUI.node.ts) *)
(* : the graph composer (setByPath, applyUserInputsToWorkflow) and the job  *)
(* lifecycle of execute (item loop, config load, submit, WebSocket wait,    *)
(* result processing, per-item catch).                                      *)
(*                                                                         *)
(* JavaScript values are tagged records [t, v]:                             *)
(*   [t |-> "str", v |-> "hello"]   a string                                *)
(*   [t |-> "num", v |-> 7]         a number                                *)
(*   [t |-> "null", v |-> 0]        null                                    *)
(*   [t |-> "undef", v |-> 0]       undefined                               *)
(*   [t |-> "obj", v |-> f]         a JSON object as text/tree (f: key->value)*)
(*   [t |-> "ref", v |-> a]         a reference to the heap object at a     *)
(* A heap is a sequence of objects (functions key -> value); an address is  *)
(* an index of the sequence, and allocation appends.  A dot path string     *)
(* such as "inputs.text" is represented by the sequence of its parts.       *)
(***************************************************************************)
EXTENDS Integers, Sequences, FiniteSets, TLC

VARIABLES
  \* ---- the graph composer, called on its own (ComposeSpec)
  tplHeap,     \* the heap holding the template Graph Document
  tplRoot,     \* the value of the `workflow` argument (a ref into tplHeap)
  tplDoc,      \* the Graph Document as it was loaded (text/tree)
  cInputs,     \* userInputs of the last call
  cMappings,   \* mappings of the last call (entries in enumeration order)
  cBatch,      \* batchSize of the last call
  cResult,     \* what the last call returned or threw
  \* ---- execute: the host's configuration
  items,          \* this.getInputData().length
  continueOnFail, \* this.continueOnFail()
  \* ---- execute: its position and locals
  pc,             \* "loop" | "load" | "submit" | "await" | "prepare" | "returned" | "thrown"
  itemIndex,      \* the loop variable
  loc,            \* the locals of the current iteration that are still read
  returnData,     \* the output records pushed so far
  thrown,         \* the error execute threw, or NoError
  \* ---- execute: what exists per input item (indexed by itemIndex)
  itemError,      \* the error caught at the item boundary, or NoError
  submits,        \* httpRequest calls made for the item
  sockets,        \* WebSocket objects constructed for the item
  timers,         \* setTimeout calls made for the item
  response,       \* what the submit request returned
  ws,             \* the WebSocket of the item's job
  timeout,        \* the timer of the item's job
  promise,        \* the promise the await phase waits on
  firstEvent,     \* the first callback run for the job: "timer" | "message" | "error"
  lateEvent,      \* whether a channel callback ran after the first one
  \* ---- the template repository and the node's description
  dir,            \* the workflows directory: whether it exists, and its entries
  scan,           \* getWorkflows: its position, the names collected, its outcome
  properties,     \* this.description.properties
  build           \* loadAndAppendDynamicProperties: its position

composeVars == <<tplHeap, tplRoot, tplDoc, cInputs, cMappings, cBatch, cResult>>
hostVars == <<items, continueOnFail>>
execVars == <<pc, itemIndex, loc, returnData, thrown>>
jobVars == <<itemError, submits, sockets, timers, response, ws, timeout, promise, firstEvent, lateEvent>>
repoVars == <<dir, scan, properties, build>>
vars == <<composeVars, hostVars, execVars, jobVars, repoVars>>

\* ------------------------------------------------------------------ bounds
MaxBatch == 2      \* batchSize ranges over 1..MaxBatch
MaxMappings == 2   \* entries of a mapping set passed to the composer alone
MaxItems == 2      \* input items of one execute
MaxRecords == 2    \* records of a batch payload in the result processing alone
MaxEntries == 3    \* entries of the workflows directory
MaxBuilds == 2     \* runs of loadAndAppendDynamicProperties on one node

\* ------------------------------------------------------------- JS values
Str(s) == [t |-> "str", v |-> s]
Num(n) == [t |-> "num", v |-> n]
Null == [t |-> "null", v |-> 0]
Undefined == [t |-> "undef", v |-> 0]
Obj(f) == [t |-> "obj", v |-> f]
Ref(a) == [t |-> "ref", v |-> a]
EmptyObject == <<>>

\* JavaScript truthiness, as `!x` and `a && b` read it.
Truthy(val) ==
  CASE val.t = "ref" -> TRUE
    [] val.t \in {"obj", "arr", "map", "payload"} -> TRUE
    [] val.t = "str" -> val.v # ""
    [] val.t = "num" -> val.v # 0
    [] OTHER -> FALSE

\* obj[key] = val on a heap object.
Put(obj, key, val) ==
  [k \in (DOMAIN obj) \cup {key} |-> IF k = key THEN val ELSE obj[k]]

\* ref[key]: a property read.  A missing property, and any property of a
\* primitive, reads as undefined.
GetProp(heap, ref, key) ==
  IF ref.t = "ref" /\ key \in DOMAIN heap[ref.v] THEN heap[ref.v][key] ELSE Undefined

\* JSON.parse of a document: every object of the text becomes a fresh heap object.
RECURSIVE JsonParse(_, _), JsonParseFields(_, _, _, _)
JsonParse(heap, tree) ==
  IF tree.t # "obj" THEN [heap |-> heap, val |-> tree]
  ELSE LET r == JsonParseFields(heap, tree.v, DOMAIN tree.v, EmptyObject)
       IN [heap |-> Append(r.heap, r.obj), val |-> Ref(Len(r.heap) + 1)]
JsonParseFields(heap, fields, keys, acc) ==
  IF keys = {} THEN [heap |-> heap, obj |-> acc]
  ELSE LET k == CHOOSE x \in keys : TRUE
           p == JsonParse(heap, fields[k])
       IN JsonParseFields(p.heap, fields, keys \ {k}, Put(acc, k, p.val))

\* JSON.stringify of a value: the tree below it; properties holding undefined
\* are dropped.
RECURSIVE JsonStringify(_, _)
JsonStringify(heap, val) ==
  IF val.t # "ref" THEN val
  ELSE LET o == heap[val.v]
           keep == {k \in DOMAIN o : o[k].t # "undef"}
       IN Obj([k \in keep |-> JsonStringify(heap, o[k])])

\* JSON.parse(JSON.stringify(workflow)).  JSON.stringify(undefined) is
\* undefined and JSON.parse(undefined) throws a SyntaxError.
DeepCopyAlias(heap, val) ==
  [ok |-> TRUE, heap |-> heap, val |-> val]
DeepCopy(heap, val) ==
  IF val.t = "undef" THEN [ok |-> FALSE, heap |-> heap, val |-> Undefined]
  ELSE LET p == JsonParse(heap, JsonStringify(heap, val))
       IN [ok |-> TRUE, heap |-> p.heap, val |-> p.val]

\* setByPath with `ref[key] = {}` run for every part, whatever ref[key] holds.
RECURSIVE SetByPathClobber(_, _, _, _)
SetByPathClobber(heap, ref, parts, value) ==
  IF ref.t # "ref" THEN [ok |-> FALSE, heap |-> heap]
  ELSE IF Len(parts) = 1
    THEN [ok |-> TRUE, heap |-> [heap EXCEPT ![ref.v] = Put(@, parts[1], value)]]
    ELSE LET fresh == Ref(Len(heap) + 1)
             h1 == Append([heap EXCEPT ![ref.v] = Put(@, parts[1], fresh)], EmptyObject)
         IN SetByPathClobber(h1, fresh, Tail(parts), value)

\* setByPath(obj, pathStr, value), with parts = pathStr.split('.').  Class code
\* is strict: creating a property on a primitive throws a TypeError (ok = FALSE).
RECURSIVE SetByPath(_, _, _, _)
SetByPath(heap, ref, parts, value) ==
  IF ref.t # "ref" THEN [ok |-> FALSE, heap |-> heap]
  ELSE IF Len(parts) = 1
    THEN [ok |-> TRUE, heap |-> [heap EXCEPT ![ref.v] = Put(@, parts[1], value)]]
    ELSE LET key == parts[1]
             cur == GetProp(heap, ref, key)
         IN IF cur.t \in {"undef", "null"}
              THEN LET fresh == Ref(Len(heap) + 1)
                       h1 == Append([heap EXCEPT ![ref.v] = Put(@, key, fresh)], EmptyObject)
                   IN SetByPath(h1, fresh, Tail(parts), value)
              ELSE SetByPath(heap, cur, Tail(parts), value)

\* The reserved batch-size binding.
BatchParam == "batchSize"
BatchPath == <<"inputs", "batch_size">>

\* userInputs[inputName]
InputOf(userInputs, name) ==
  IF name \in DOMAIN userInputs THEN userInputs[name] ELSE Undefined

\* The loop with `break` in place of `continue` on a missing node.
RECURSIVE ApplyEntriesBreak(_, _, _, _, _, _)
ApplyEntriesBreak(heap, modified, userInputs, mappings, batchSize, i) ==
  IF i > Len(mappings) THEN [ok |-> TRUE, heap |-> heap]
  ELSE LET m == mappings[i]
           node == GetProp(heap, modified, m.nodeId)
           value == IF m.name = BatchParam /\ m.path = BatchPath
                      THEN Num(batchSize) ELSE InputOf(userInputs, m.name)
       IN IF modified.t \in {"null", "undef"} THEN [ok |-> FALSE, heap |-> heap]
          ELSE IF ~Truthy(node) THEN [ok |-> TRUE, heap |-> heap]
          ELSE IF value.t # "undef"
            THEN LET r == SetByPath(heap, node, m.path, value)
                 IN IF r.ok
                      THEN ApplyEntriesBreak(r.heap, modified, userInputs, mappings,
                                             batchSize, i + 1)
                      ELSE r
          ELSE ApplyEntriesBreak(heap, modified, userInputs, mappings, batchSize, i + 1)

\* The loop without the batchSize special case: every entry takes its value
\* from userInputs.
RECURSIVE ApplyEntriesNoBatch(_, _, _, _, _, _)
ApplyEntriesNoBatch(heap, modified, userInputs, mappings, batchSize, i) ==
  IF i > Len(mappings) THEN [ok |-> TRUE, heap |-> heap]
  ELSE LET m == mappings[i]
           node == GetProp(heap, modified, m.nodeId)
       IN IF modified.t \in {"null", "undef"} THEN [ok |-> FALSE, heap |-> heap]
          ELSE IF ~Truthy(node)
            THEN ApplyEntriesNoBatch(heap, modified, userInputs, mappings, batchSize, i + 1)
          ELSE IF InputOf(userInputs, m.name).t # "undef"
            THEN LET r == SetByPath(heap, node, m.path, InputOf(userInputs, m.name))
                 IN IF r.ok
                      THEN ApplyEntriesNoBatch(r.heap, modified, userInputs, mappings,
                                               batchSize, i + 1)
                      ELSE r
          ELSE ApplyEntriesNoBatch(heap, modified, userInputs, mappings, batchSize, i + 1)

\* The loop over Object.entries(mappings || {}) from entry i on.
RECURSIVE ApplyEntries(_, _, _, _, _, _)
ApplyEntries(heap, modified, userInputs, mappings, batchSize, i) ==
  IF i > Len(mappings) THEN [ok |-> TRUE, heap |-> heap]
  ELSE LET m == mappings[i]
           node == GetProp(heap, modified, m.nodeId)
       IN IF modified.t \in {"null", "undef"} THEN [ok |-> FALSE, heap |-> heap]
          ELSE IF ~Truthy(node)
            THEN ApplyEntries(heap, modified, userInputs, mappings, batchSize, i + 1)
          ELSE IF m.name = BatchParam /\ m.path = BatchPath
            THEN LET r == SetByPath(heap, node, m.path, Num(batchSize))
                 IN IF r.ok
                      THEN ApplyEntries(r.heap, modified, userInputs, mappings, batchSize, i + 1)
                      ELSE r
          ELSE IF InputOf(userInputs, m.name).t # "undef"
            THEN LET r == SetByPath(heap, node, m.path, InputOf(userInputs, m.name))
                 IN IF r.ok
                      THEN ApplyEntries(r.heap, modified, userInputs, mappings, batchSize, i + 1)
                      ELSE r
          ELSE ApplyEntries(heap, modified, userInputs, mappings, batchSize, i + 1)

\* applyUserInputsToWorkflow(workflow, userInputs, mappings, batchSize): the
\* heap after the call, and the returned graph or the error thrown.
ApplyUserInputsToWorkflow(heap, workflow, userInputs, mappings, batchSize) ==
  LET c == DeepCopy(heap, workflow)
  IN IF ~c.ok THEN [status |-> "SyntaxError", heap |-> heap, modified |-> Undefined]
     ELSE LET r == ApplyEntries(c.heap, c.val, userInputs, mappings, batchSize, 1)
          IN IF r.ok THEN [status |-> "ok", heap |-> r.heap, modified |-> c.val]
             ELSE [status |-> "TypeError", heap |-> r.heap, modified |-> Undefined]

\* ------------------------------------------ the composer called on its own
\* Node records of a Graph Document.
NodeSampler ==
  Obj([class_type |-> Str("KSampler"),
       inputs |-> Obj([text |-> Str("old"), batch_size |-> Num(1)])])
NodeNullA == Obj([class_type |-> Str("Any"), inputs |-> Obj([a |-> Null])])
NodeNested ==
  Obj([class_type |-> Str("Any"),
       inputs |-> Obj([a |-> Obj([b |-> Str("old"), c |-> Str("keep")])])])
NodePrimA == Obj([class_type |-> Str("Any"), inputs |-> Obj([a |-> Str("prim")])])
NodeNoInputs == Obj([class_type |-> Str("Any")])
NodeShapes == {NodeSampler, NodeNullA, NodeNested, NodePrimA, NodeNoInputs}

\* Graph Documents: node "3" of any shape, node "5" a sampler.  No document has
\* a node "9".
GraphDocs == {Obj(("3" :> s) @@ ("5" :> NodeSampler)) : s \in NodeShapes}
NodeIds == {"3", "5", "9"}
Paths == {<<"inputs", "text">>, BatchPath, <<"inputs", "a", "b">>, <<"class_type">>}
ParamNames == {"text", BatchParam}

\* Mapping sets: entries with distinct parameter names, in enumeration order.
MappingEntries == [name : ParamNames, nodeId : NodeIds, path : Paths]
MappingSets ==
  {s \in UNION {[1..k -> MappingEntries] : k \in 0..MaxMappings} :
     \A i, j \in DOMAIN s : i # j => s[i].name # s[j].name}

\* userInputs: a parameter is absent, explicitly undefined, or holds a value.
InputSets ==
  {t @@ b : t \in {<<>>, "text" :> Undefined, "text" :> Str("hello")},
            b \in {<<>>, BatchParam :> Undefined, BatchParam :> Num(7), BatchParam :> Null}}

NoResult == [status |-> "none", graph |-> Undefined]

\* A template is loaded; a mapping set, values and a batch size are at hand.
ComposeInit ==
  /\ \E doc \in GraphDocs :
       LET p == JsonParse(<<>>, doc)
       IN tplHeap = p.heap /\ tplRoot = p.val /\ tplDoc = doc
  /\ cInputs \in InputSets
  /\ cMappings \in MappingSets
  /\ cBatch \in 1..MaxBatch
  /\ cResult = NoResult

\* One call of applyUserInputsToWorkflow on the loaded template.  The heap kept
\* is what the template reaches after the call; the returned graph is read out.
ComposeCall ==
  LET r == ApplyUserInputsToWorkflow(tplHeap, tplRoot, cInputs, cMappings, cBatch)
      t == JsonParse(<<>>, JsonStringify(r.heap, tplRoot))
  IN /\ tplHeap' = t.heap
     /\ tplRoot' = t.val
     /\ cResult' = [status |-> r.status, graph |-> JsonStringify(r.heap, r.modified)]
     /\ UNCHANGED <<tplDoc, cInputs, cMappings, cBatch>>

\* The next call on the same template and mapping set gets other values and
\* another batch size (as the next input item of execute does).
SupplyInputs ==
  /\ cResult.status # "none"
  /\ \E ui \in InputSets, b \in 1..MaxBatch :
       /\ <<ui, b>> # <<cInputs, cBatch>>
       /\ cInputs' = ui
       /\ cBatch' = b
  /\ cResult' = NoResult
  /\ UNCHANGED <<tplHeap, tplRoot, tplDoc, cMappings>>

\* ------------------------------------------------- execute: the environment
NoError == "none"
ErrNoWorkflow == "No workflow selected. Please select a workflow from the dropdown."
ErrLoadConfig == "Failed to load config for workflow"
ErrLoadWorkflowConfiguration == "Failed to load workflow configuration"
ErrSyntax == "SyntaxError"
ErrType == "TypeError"
ErrHttp == "httpRequest failed"
ErrTimeout == "Job timed out. No response from Gatekeeper WebSocket."
ErrParse == "Failed to parse WebSocket message from Gatekeeper."
ErrConnection == "WebSocket connection error"
ErrPrepare == "prepareBinaryData failed"

\* A file of the workflows folder: a JSON document, or one that cannot be read
\* or parsed (fs.readFile or JSON.parse throws).
File(doc) == [ok |-> TRUE, doc |-> doc]
NoFile == [ok |-> FALSE, doc |-> Undefined]

\* The documents of the templates on disk.
ExecGraph ==
  Obj("3" :> Obj([class_type |-> Str("KSampler"),
                  inputs |-> Obj([text |-> Str("old"), steps |-> Num(20),
                                  batch_size |-> Num(1)])]))
ExecProperties ==
  [t |-> "arr",
   v |-> << [name |-> "text", type |-> "string", default |-> Str("dflt")],
            [name |-> "steps", type |-> "number", default |-> Undefined] >>]
ExecMappings ==
  [t |-> "map",
   v |-> << [name |-> "text", nodeId |-> "3", path |-> <<"inputs", "text">>],
            [name |-> "steps", nodeId |-> "3", path |-> <<"inputs", "steps">>],
            [name |-> BatchParam, nodeId |-> "3", path |-> BatchPath] >>]
WorkflowJson == File(Obj([workflow |-> ExecGraph]))
Disk ==
  [good    |-> [workflow |-> WorkflowJson,
                ui |-> File(Obj([properties |-> ExecProperties, mappings |-> ExecMappings]))],
   nomap   |-> [workflow |-> WorkflowJson,
                ui |-> File(Obj([properties |-> ExecProperties]))],
   noprops |-> [workflow |-> WorkflowJson,
                ui |-> File(Obj([mappings |-> ExecMappings]))],
   nograph |-> [workflow |-> File(Obj(EmptyObject)),
                ui |-> File(Obj([properties |-> ExecProperties, mappings |-> ExecMappings]))],
   broken  |-> [workflow |-> NoFile,
                ui |-> File(Obj([properties |-> ExecProperties, mappings |-> ExecMappings]))],
   noui    |-> [workflow |-> WorkflowJson, ui |-> NoFile],
   nullui  |-> [workflow |-> WorkflowJson, ui |-> File(Null)]]
Slugs == DOMAIN Disk
\* What the host returns for 'selectedWorkflow': a slug, or the default ''.
Selections == Slugs \cup {""}
OperationModes == {"websocket", "webhook"}

\* What the host does on getNodeParameter(prop.name, itemIndex, prop.default).
HostThrows == [t |-> "throw", v |-> 0]
\* It throws, or returns the stored value: for a number field the number, or the
\* string an expression evaluated to.
HostOutcomes(prop) ==
  IF prop.type = "number" THEN {HostThrows, Str("7"), Num(7)}
  ELSE {HostThrows, Str("hello")}

\* What the submit request returns: a body with a job_id, a body without one,
\* a body that is no object.
JobIdAbc == Str("abc")
Responses == {Obj([job_id |-> JobIdAbc]), Obj(EmptyObject), Null}

\* Result records and the messages a channel may deliver.
RecText == [format |-> "text", data |-> Str("done")]
RecBinary == [format |-> "binary", data |-> Str("AAAA")]
RecUnknown == [format |-> "other", data |-> Str("x")]
Payload(format, data, results) ==
  [t |-> "payload", v |-> [format |-> format, data |-> data, results |-> results]]
Single(r) == Payload(r.format, r.data, Undefined)
Multiple(rs) == Payload("multiple", Undefined, [t |-> "arr", v |-> rs])
\* data.toString() of a message: text that parses as JSON to `value`, or text
\* that JSON.parse rejects.
Message(value) == [parses |-> TRUE, value |-> value]
MsgNotJson == [parses |-> FALSE, value |-> Undefined]
Messages ==
  {MsgNotJson, Message(Null), Message(Single(RecText)), Message(Single(RecBinary)),
   Message(Multiple(<<RecBinary, RecText, RecUnknown>>))}

\* ------------------------------------------------------ execute: helpers
Items == 0..(MaxItems - 1)

NoLocals ==
  [selectedWorkflow |-> "", operationMode |-> "", batchSize |-> 0,
   userInputs |-> <<>>, finalWorkflow |-> Undefined, jobId |-> Undefined,
   finalResult |-> Undefined, resultIndex |-> 0]

\* firstMessage: the data of the message that ran first among the callbacks.
NoWebSocket ==
  [created |-> FALSE, url |-> Undefined, closeCalled |-> FALSE, firstMessage |-> Undefined,
   ended |-> FALSE]
NoPromise == [state |-> "none", value |-> Undefined]

\* doc[key] on a parsed JSON document.
DocField(doc, key) ==
  IF doc.t = "obj" /\ key \in DOMAIN doc.v THEN doc.v[key] ELSE Undefined

\* loadWorkflowConfigFromDisk(workflowName): both files read and parsed, or the
\* NodeOperationError of its catch.
LoadWorkflowConfigFromDisk(workflowName) ==
  LET workflowFile == Disk[workflowName].workflow
      uiFile == Disk[workflowName].ui
  IN IF workflowFile.ok /\ uiFile.ok
       THEN [ok |-> TRUE, workflow |-> workflowFile.doc, ui_inputs |-> uiFile.doc]
       ELSE [ok |-> FALSE, workflow |-> Undefined, ui_inputs |-> Undefined]

\* !workflowConfig || !workflowConfig.workflow || !workflowConfig.ui_inputs
ConfigRejected(workflowConfig) ==
  ~Truthy(workflowConfig.workflow) \/ ~Truthy(workflowConfig.ui_inputs)

\* workflowConfig.ui_inputs.mappings || {}
MappingsOf(ui_inputs) ==
  LET m == DocField(ui_inputs, "mappings")
  IN IF Truthy(m) THEN m.v ELSE <<>>

\* workflowConfig.ui_inputs.properties || []
DynamicPropertiesOf(ui_inputs) ==
  LET ps == DocField(ui_inputs, "properties")
  IN IF Truthy(ps) THEN ps.v ELSE <<>>

PropNames(props) == {props[j].name : j \in DOMAIN props}

\* The definition the loop reaches last for a name (a later write of
\* userInputs[prop.name] overwrites an earlier one).
PropNamed(props, n) ==
  props[CHOOSE j \in DOMAIN props :
          /\ props[j].name = n
          /\ \A l \in DOMAIN props : props[l].name = n => l <= j]

\* What the host may do for each dynamic property of the list.
HostBehaviours(props) ==
  {h \in [PropNames(props) -> {HostThrows, Str("7"), Num(7), Str("hello")}] :
     \A n \in PropNames(props) : h[n] \in HostOutcomes(PropNamed(props, n))}

\* prop.default ?? ''
DefaultOrEmpty(prop) ==
  IF prop.default.t \in {"undef", "null"} THEN Str("") ELSE prop.default

\* The loop that fills userInputs; host[name] is what getNodeParameter does.
GatherInputs(props, host) ==
  [n \in PropNames(props) |->
     IF host[n] = HostThrows THEN DefaultOrEmpty(PropNamed(props, n)) ELSE host[n]]

\* Output records.
ErrorItem(msg, i) == [kind |-> "error", item |-> i, val |-> Str(msg)]
SubmittedItem(jobId, i) == [kind |-> "submitted", item |-> i, val |-> jobId]

\* An element of finalResult.results that is null: reading result.format throws.
RecNull == [null |-> TRUE]
\* output.json.rawResult = result
RawResult(result) == [t |-> "rec", v |-> result]

\* The branches on result.format / finalResult.format.
NeedsPrepare(result) == result.format = "binary" /\ Truthy(result.data)
\* Buffer.from(result.data, 'base64') throws a TypeError for a number.
BufferFromThrows(result) == NeedsPrepare(result) /\ result.data.t = "num"
OutputOf(result, i) ==
  IF result.format = "filePath" /\ Truthy(result.data)
    THEN [kind |-> "filePath", item |-> i, val |-> result.data]
  ELSE IF result.format = "text" /\ Truthy(result.data)
    THEN [kind |-> "text", item |-> i, val |-> result.data]
  ELSE [kind |-> "unexpected", item |-> i, val |-> RawResult(result)]
BinaryItem(result, i) == [kind |-> "binary", item |-> i, val |-> result.data]

\* finalResult.format === 'multiple' && finalResult.results
IsMultiple(finalResult) ==
  finalResult.v.format = "multiple" /\ Truthy(finalResult.v.results)
\* The records the result processing walks: the batch, or the payload itself.
ResultsOf(finalResult) ==
  IF IsMultiple(finalResult) THEN finalResult.v.results.v
  ELSE << [format |-> finalResult.v.format, data |-> finalResult.v.data] >>

\* Result processing from record k up to the next await of prepareBinaryData,
\* or up to the record at which a TypeError is thrown.
RECURSIVE RunRecords(_, _, _, _)
RunRecords(out, recs, k, i) ==
  IF k > Len(recs) THEN [out |-> out, k |-> k, threw |-> FALSE]
  ELSE IF recs[k] = RecNull \/ BufferFromThrows(recs[k])
    THEN [out |-> out, k |-> k, threw |-> TRUE]
  ELSE IF NeedsPrepare(recs[k]) THEN [out |-> out, k |-> k, threw |-> FALSE]
  ELSE RunRecords(Append(out, OutputOf(recs[k], i)), recs, k + 1, i)

\* ------------------------------------------------------ execute: control
\* The catch clause with an empty continueOnFail branch: the error is dropped.
CaughtSwallow(msg) ==
  /\ itemError' = [itemError EXCEPT ![itemIndex] = msg]
  /\ loc' = NoLocals
  /\ IF continueOnFail
       THEN /\ itemIndex' = itemIndex + 1
            /\ pc' = "loop"
            /\ UNCHANGED <<thrown, returnData>>
       ELSE /\ thrown' = msg
            /\ pc' = "thrown"
            /\ UNCHANGED <<returnData, itemIndex>>

\* The catch clause without its continueOnFail branch: every error is rethrown.
CaughtNoContinue(msg) ==
  /\ itemError' = [itemError EXCEPT ![itemIndex] = msg]
  /\ loc' = NoLocals
  /\ thrown' = msg
  /\ pc' = "thrown"
  /\ UNCHANGED <<returnData, itemIndex>>

\* The catch clause of the item loop.
Caught(msg) ==
  /\ itemError' = [itemError EXCEPT ![itemIndex] = msg]
  /\ loc' = NoLocals
  /\ IF continueOnFail
       THEN /\ returnData' = Append(returnData, ErrorItem(msg, itemIndex))
            /\ itemIndex' = itemIndex + 1
            /\ pc' = "loop"
            /\ UNCHANGED thrown
       ELSE /\ thrown' = msg
            /\ pc' = "thrown"
            /\ UNCHANGED <<returnData, itemIndex>>

\* The catch clause reached from the result loop, after it pushed records:
\* `out` is returnData at the throw.
CaughtWith(out, msg) ==
  /\ itemError' = [itemError EXCEPT ![itemIndex] = msg]
  /\ loc' = NoLocals
  /\ IF continueOnFail
       THEN /\ returnData' = Append(out, ErrorItem(msg, itemIndex))
            /\ itemIndex' = itemIndex + 1
            /\ pc' = "loop"
            /\ UNCHANGED thrown
       ELSE /\ returnData' = out
            /\ thrown' = msg
            /\ pc' = "thrown"
            /\ UNCHANGED itemIndex

\* The end of an iteration (or `continue`) with `out` as returnData.
ItemDone(out) ==
  /\ returnData' = out
  /\ itemIndex' = itemIndex + 1
  /\ pc' = "loop"
  /\ loc' = NoLocals
  /\ UNCHANGED <<thrown, itemError>>

\* "Process results" from record k of finalResult on.
ProcessFrom(out, finalResult, k) ==
  LET recs == ResultsOf(finalResult)
      r == RunRecords(out, recs, k, itemIndex)
  IN IF r.threw THEN CaughtWith(r.out, ErrType)
     ELSE IF r.k > Len(recs) THEN ItemDone(r.out)
     ELSE /\ returnData' = r.out
          /\ pc' = "prepare"
          /\ loc' = [loc EXCEPT !.finalResult = finalResult, !.resultIndex = r.k]
          /\ UNCHANGED <<itemIndex, thrown, itemError>>

\* What follows `await new Promise(...)` once it resolved with finalResult.
AfterResolve(finalResult) ==
  IF finalResult.t # "payload" THEN Caught(ErrType)
  ELSE ProcessFrom(returnData, finalResult, 1)

ExecInit ==
  /\ items \in 1..MaxItems
  /\ continueOnFail \in BOOLEAN
  /\ pc = "loop"
  /\ itemIndex = 0
  /\ loc = NoLocals
  /\ returnData = <<>>
  /\ thrown = NoError
  /\ itemError = [i \in Items |-> NoError]
  /\ submits = [i \in Items |-> 0]
  /\ sockets = [i \in Items |-> 0]
  /\ timers = [i \in Items |-> 0]
  /\ response = [i \in Items |-> Undefined]
  /\ ws = [i \in Items |-> NoWebSocket]
  /\ timeout = [i \in Items |-> "none"]
  /\ promise = [i \in Items |-> NoPromise]
  /\ firstEvent = [i \in Items |-> "none"]
  /\ lateEvent = [i \in Items |-> FALSE]

\* The top of an iteration: the required parameters are read.
StartItem ==
  /\ pc = "loop"
  /\ itemIndex < items
  /\ \E selectedWorkflow \in Selections, operationMode \in OperationModes,
        batchSize \in 1..MaxBatch :
       IF selectedWorkflow = ""
         THEN Caught(ErrNoWorkflow)
         ELSE /\ loc' = [NoLocals EXCEPT !.selectedWorkflow = selectedWorkflow,
                                         !.operationMode = operationMode,
                                         !.batchSize = batchSize]
              /\ pc' = "load"
              /\ UNCHANGED <<itemIndex, returnData, thrown, itemError>>
  /\ UNCHANGED <<composeVars, repoVars, hostVars, submits, sockets, timers, response, ws, timeout, promise, firstEvent, lateEvent>>

\* loadWorkflowConfigFromDisk settles; then validation, the dynamic inputs, the
\* composition and the call of httpRequest.
LoadConfig ==
  /\ pc = "load"
  /\ LET workflowConfig == LoadWorkflowConfigFromDisk(loc.selectedWorkflow)
     IN IF ~workflowConfig.ok
          THEN Caught(ErrLoadConfig) /\ UNCHANGED submits
        ELSE IF ConfigRejected(workflowConfig)
          THEN Caught(ErrLoadWorkflowConfiguration) /\ UNCHANGED submits
        ELSE
          LET parsed == JsonParse(<<>>, workflowConfig.workflow)
              workflowTemplate == GetProp(parsed.heap, parsed.val, "workflow")
              mappings == MappingsOf(workflowConfig.ui_inputs)
              dynamicProperties == DynamicPropertiesOf(workflowConfig.ui_inputs)
          IN \E host \in HostBehaviours(dynamicProperties) :
               LET userInputs == GatherInputs(dynamicProperties, host)
                   r == ApplyUserInputsToWorkflow(parsed.heap, workflowTemplate,
                                                  userInputs, mappings, loc.batchSize)
               IN IF r.status # "ok"
                    THEN Caught(r.status) /\ UNCHANGED submits
                    ELSE /\ loc' = [NoLocals EXCEPT
                                      !.selectedWorkflow = loc.selectedWorkflow,
                                      !.operationMode = loc.operationMode,
                                      !.userInputs = userInputs,
                                      !.finalWorkflow = JsonStringify(r.heap, r.modified)]
                         /\ submits' = [submits EXCEPT ![itemIndex] = @ + 1]
                         /\ pc' = "submit"
                         /\ UNCHANGED <<itemIndex, returnData, thrown, itemError>>
  /\ UNCHANGED <<composeVars, repoVars, hostVars, sockets, timers, response, ws, timeout, promise, firstEvent, lateEvent>>

\* The webhook branch without its `continue`: the acknowledgment is pushed and
\* the code below it runs as well.
SubmitReturnsNoContinue ==
  /\ pc = "submit"
  /\ \E initialResponse \in Responses :
       /\ response' = [response EXCEPT ![itemIndex] = initialResponse]
       /\ IF initialResponse.t \in {"null", "undef"}
            THEN Caught(ErrType) /\ UNCHANGED <<sockets, timers, ws, timeout, promise>>
          ELSE LET jobId == DocField(initialResponse, "job_id")
               IN /\ returnData' =
                       IF loc.operationMode = "webhook"
                         THEN Append(returnData, SubmittedItem(jobId, itemIndex))
                         ELSE returnData
                  /\ ws' = [ws EXCEPT ![itemIndex] =
                              [NoWebSocket EXCEPT !.created = TRUE, !.url = jobId]]
                  /\ sockets' = [sockets EXCEPT ![itemIndex] = @ + 1]
                  /\ timeout' = [timeout EXCEPT ![itemIndex] = "armed"]
                  /\ timers' = [timers EXCEPT ![itemIndex] = @ + 1]
                  /\ promise' = [promise EXCEPT ![itemIndex] =
                                   [state |-> "pending", value |-> Undefined]]
                  /\ loc' = [NoLocals EXCEPT !.jobId = jobId]
                  /\ pc' = "await"
                  /\ UNCHANGED <<itemIndex, thrown, itemError>>
  /\ UNCHANGED <<composeVars, repoVars, hostVars, submits, firstEvent, lateEvent>>

\* httpRequest returns a body: the webhook branch, or the WebSocket and its timer.
SubmitReturns ==
  /\ pc = "submit"
  /\ \E initialResponse \in Responses :
       /\ response' = [response EXCEPT ![itemIndex] = initialResponse]
       /\ IF initialResponse.t \in {"null", "undef"}
            THEN Caught(ErrType) /\ UNCHANGED <<sockets, timers, ws, timeout, promise>>
          ELSE LET jobId == DocField(initialResponse, "job_id")
               IN IF loc.operationMode = "webhook"
                    THEN /\ ItemDone(Append(returnData, SubmittedItem(jobId, itemIndex)))
                         /\ UNCHANGED <<sockets, timers, ws, timeout, promise>>
                    ELSE /\ ws' = [ws EXCEPT ![itemIndex] =
                                     [NoWebSocket EXCEPT !.created = TRUE, !.url = jobId]]
                         /\ sockets' = [sockets EXCEPT ![itemIndex] = @ + 1]
                         /\ timeout' = [timeout EXCEPT ![itemIndex] = "armed"]
                         /\ timers' = [timers EXCEPT ![itemIndex] = @ + 1]
                         /\ promise' = [promise EXCEPT ![itemIndex] =
                                          [state |-> "pending", value |-> Undefined]]
                         /\ loc' = [NoLocals EXCEPT !.jobId = jobId]
                         /\ pc' = "await"
                         /\ UNCHANGED <<itemIndex, returnData, thrown, itemError>>
  /\ UNCHANGED <<composeVars, repoVars, hostVars, submits, firstEvent, lateEvent>>

\* A failed httpRequest that is attempted once more instead of being thrown.
SubmitFailsRetry ==
  /\ pc = "submit"
  /\ submits[itemIndex] < 3
  /\ submits' = [submits EXCEPT ![itemIndex] = @ + 1]
  /\ UNCHANGED <<composeVars, repoVars, hostVars, execVars, itemError, sockets, timers,
                 response, ws, timeout, promise, firstEvent, lateEvent>>

\* httpRequest throws: connection refused, a non-success status.
SubmitFails ==
  /\ pc = "submit"
  /\ Caught(ErrHttp)
  /\ UNCHANGED <<composeVars, repoVars, hostVars, submits, sockets, timers, response, ws, timeout, promise, firstEvent, lateEvent>>

\* ------------------------------------------- execute: the await phase
\* The channel exists and may emit an event.  ws emits 'message' and 'error'
\* also after close() was called (frames in flight, an aborted handshake), but
\* none once the service has closed the connection cleanly.
CanDeliver(i) == ws[i].created /\ ~ws[i].ended

\* The service closes the channel of job i cleanly while the client waits on
\* it.  No handler is registered for 'close': nothing of the client runs.
ChannelCloses(i) ==
  /\ CanDeliver(i)
  /\ ~ws[i].closeCalled
  /\ promise[i].state = "pending"
  /\ ws' = [ws EXCEPT ![i].ended = TRUE]
  /\ UNCHANGED <<composeVars, repoVars, hostVars, execVars, itemError, submits, sockets,
                 timers, response, timeout, promise, firstEvent, lateEvent>>

\* The bookkeeping of a callback of kind e run for job i.
Logged(i, e) ==
  IF firstEvent[i] = "none"
    THEN firstEvent' = [firstEvent EXCEPT ![i] = e] /\ UNCHANGED lateEvent
    ELSE lateEvent' = [lateEvent EXCEPT ![i] = TRUE] /\ UNCHANGED firstEvent

\* The messages the channel of job i may deliver.  What a message handled after
\* the promise settled holds is parsed and dropped: one stands for all.
Deliverable(i) == IF promise[i].state = "pending" THEN Messages ELSE {MsgNotJson}

\* clearTimeout(timeout): a timer that fired or was cleared stays as it is.
ClearTimeout(state) == IF state = "armed" THEN "cleared" ELSE state

\* The setTimeout callback without ws.close().
TimerFiresNoClose(i) ==
  /\ timeout[i] = "armed"
  /\ timeout' = [timeout EXCEPT ![i] = "fired"]
  /\ UNCHANGED ws
  /\ Logged(i, "timer")
  /\ IF promise[i].state = "pending"
       THEN /\ promise' = [promise EXCEPT ![i] = [state |-> "rejected", value |-> Str(ErrTimeout)]]
            /\ Caught(ErrTimeout)
       ELSE UNCHANGED <<promise, execVars, itemError>>
  /\ UNCHANGED <<composeVars, repoVars, hostVars, submits, sockets, timers, response>>

\* The setTimeout callback without its reject(...).
TimerFiresNoReject(i) ==
  /\ timeout[i] = "armed"
  /\ timeout' = [timeout EXCEPT ![i] = "fired"]
  /\ ws' = [ws EXCEPT ![i].closeCalled = TRUE]
  /\ Logged(i, "timer")
  /\ UNCHANGED <<promise, execVars, itemError>>
  /\ UNCHANGED <<composeVars, repoVars, hostVars, submits, sockets, timers, response>>

\* The setTimeout callback: ws.close(), reject(timeout error).
TimerFires(i) ==
  /\ timeout[i] = "armed"
  /\ timeout' = [timeout EXCEPT ![i] = "fired"]
  /\ ws' = [ws EXCEPT ![i].closeCalled = TRUE]
  /\ Logged(i, "timer")
  /\ IF promise[i].state = "pending"
       THEN /\ promise' = [promise EXCEPT ![i] = [state |-> "rejected", value |-> Str(ErrTimeout)]]
            /\ Caught(ErrTimeout)
       ELSE UNCHANGED <<promise, execVars, itemError>>
  /\ UNCHANGED <<composeVars, repoVars, hostVars, submits, sockets, timers, response>>

\* ws.on('message') without clearTimeout(timeout).
OnMessageNoClear(i, data) ==
  /\ CanDeliver(i)
  /\ UNCHANGED timeout
  /\ ws' = [ws EXCEPT ![i].closeCalled = TRUE,
                      ![i].firstMessage = IF firstEvent[i] = "none" THEN data ELSE @]
  /\ Logged(i, "message")
  /\ IF promise[i].state = "pending"
       THEN IF data.parses
              THEN /\ promise' = [promise EXCEPT ![i] = [state |-> "resolved", value |-> data.value]]
                   /\ AfterResolve(data.value)
              ELSE /\ promise' = [promise EXCEPT ![i] = [state |-> "rejected", value |-> Str(ErrParse)]]
                   /\ Caught(ErrParse)
       ELSE UNCHANGED <<promise, execVars, itemError>>
  /\ UNCHANGED <<composeVars, repoVars, hostVars, submits, sockets, timers, response>>

\* ws.on('message'): clearTimeout, ws.close(), resolve(JSON.parse(data)) or
\* reject(parse error); then what follows the await, up to the next await.
OnMessage(i, data) ==
  /\ CanDeliver(i)
  /\ timeout' = [timeout EXCEPT ![i] = ClearTimeout(@)]
  /\ ws' = [ws EXCEPT ![i].closeCalled = TRUE,
                      ![i].firstMessage = IF firstEvent[i] = "none" THEN data ELSE @]
  /\ Logged(i, "message")
  /\ IF promise[i].state = "pending"
       THEN IF data.parses
              THEN /\ promise' = [promise EXCEPT ![i] = [state |-> "resolved", value |-> data.value]]
                   /\ AfterResolve(data.value)
              ELSE /\ promise' = [promise EXCEPT ![i] = [state |-> "rejected", value |-> Str(ErrParse)]]
                   /\ Caught(ErrParse)
       ELSE UNCHANGED <<promise, execVars, itemError>>
  /\ UNCHANGED <<composeVars, repoVars, hostVars, submits, sockets, timers, response>>

\* ws.on('error') without clearTimeout(timeout).
OnErrorNoClear(i) ==
  /\ CanDeliver(i)
  /\ UNCHANGED timeout
  /\ Logged(i, "error")
  /\ IF promise[i].state = "pending"
       THEN /\ promise' = [promise EXCEPT ![i] = [state |-> "rejected", value |-> Str(ErrConnection)]]
            /\ Caught(ErrConnection)
       ELSE UNCHANGED <<promise, execVars, itemError>>
  /\ UNCHANGED <<composeVars, repoVars, hostVars, submits, sockets, timers, response, ws>>

\* ws.on('error'): clearTimeout, reject(connection error).
OnError(i) ==
  /\ CanDeliver(i)
  /\ timeout' = [timeout EXCEPT ![i] = ClearTimeout(@)]
  /\ Logged(i, "error")
  /\ IF promise[i].state = "pending"
       THEN /\ promise' = [promise EXCEPT ![i] = [state |-> "rejected", value |-> Str(ErrConnection)]]
            /\ Caught(ErrConnection)
       ELSE UNCHANGED <<promise, execVars, itemError>>
  /\ UNCHANGED <<composeVars, repoVars, hostVars, submits, sockets, timers, response, ws>>

\* prepareBinaryData returns: the binary item is pushed and processing goes on.
PrepareBinaryReturns ==
  /\ pc = "prepare"
  /\ LET result == ResultsOf(loc.finalResult)[loc.resultIndex]
     IN ProcessFrom(Append(returnData, BinaryItem(result, itemIndex)),
                    loc.finalResult, loc.resultIndex + 1)
  /\ UNCHANGED <<composeVars, repoVars, hostVars, submits, sockets, timers, response, ws, timeout, promise, firstEvent, lateEvent>>

\* prepareBinaryData throws.
PrepareBinaryFails ==
  /\ pc = "prepare"
  /\ Caught(ErrPrepare)
  /\ UNCHANGED <<composeVars, repoVars, hostVars, submits, sockets, timers, response, ws, timeout, promise, firstEvent, lateEvent>>

\* The loop is over: return [returnData].
Return ==
  /\ pc = "loop"
  /\ itemIndex >= items
  /\ pc' = "returned"
  /\ UNCHANGED <<composeVars, repoVars, hostVars, itemIndex, loc, returnData, thrown, jobVars>>

\* ------------------------------------------ the template repository
\* What a file of a template folder is: absent, a JSON document, or text that
\* JSON.parse rejects.
Absent == "absent"
Unparseable == "unparseable"
Valid == "valid"
\* The properties sections a ui_inputs.json can hold (names distinct in one
\* file); none at all; or the document `null`.
PropertyLists == {<<>>, <<"text">>, <<"text", "steps">>}
UiFiles ==
  {[state |-> Absent, properties |-> <<>>, hasProperties |-> FALSE],
   [state |-> Unparseable, properties |-> <<>>, hasProperties |-> FALSE],
   [state |-> Valid, properties |-> <<>>, hasProperties |-> FALSE]} \cup
  {[state |-> Valid, properties |-> ps, hasProperties |-> TRUE] : ps \in PropertyLists}
NoUi == [state |-> Absent, properties |-> <<>>, hasProperties |-> FALSE]

\* entry.name of the k-th entry readdir returns: names in a directory differ.
NameOf(k) == ToString(k)
\* The entries readdir can return, given the files each folder may hold.
Listings(workflowFiles, uiFiles) ==
  UNION {
    {[k \in 1..n |-> [name |-> NameOf(k), isDirectory |-> e[k].isDirectory,
                      workflowJson |-> e[k].workflowJson, uiInputs |-> e[k].uiInputs]] :
       e \in [1..n -> [isDirectory : BOOLEAN, workflowJson : workflowFiles,
                       uiInputs : uiFiles]]} : n \in 0..MaxEntries}
\* A plain file among the entries has nothing below it.
PlainFilesEmpty(entries) ==
  \A k \in DOMAIN entries :
    ~entries[k].isDirectory => entries[k].workflowJson = Absent /\ entries[k].uiInputs = NoUi

\* The properties array of the description literal, by name; '' stands for no
\* displayOptions.show.selectedWorkflow.
StaticProperties ==
  << [name |-> "selectedWorkflow", show |-> ""], [name |-> "operationMode", show |-> ""],
     [name |-> "webhookUrl", show |-> ""], [name |-> "outputFormat", show |-> ""],
     [name |-> "batchSize", show |-> ""] >>

ErrNoDirectory == "Workflows directory not found"
ErrNoWorkflows == "No workflows found. Ensure each workflow folder contains a workflow.json file."

ScanIdle == [pc |-> "idle", index |-> 0, workflows |-> <<>>, error |-> NoError]
BuildIdle == [pc |-> "idle", index |-> 0, builds |-> 0]

RepoIdle ==
  /\ dir = [exists |-> FALSE, entries |-> <<>>]
  /\ scan = ScanIdle
  /\ properties = StaticProperties
  /\ build = BuildIdle

\* ---- getWorkflows
\* fs.access(workflowsDir), then readdir.
GetWorkflowsStart ==
  /\ scan.pc = "idle"
  /\ scan' = IF dir.exists
               THEN [scan EXCEPT !.pc = "scan", !.index = 1]
               ELSE [scan EXCEPT !.pc = "thrown", !.error = ErrNoDirectory]
  /\ UNCHANGED <<dir, properties, build>>

\* One iteration of the loop over the entries: fs.access(wfPath) decides.
GetWorkflowsEntry ==
  /\ scan.pc = "scan"
  /\ scan.index <= Len(dir.entries)
  /\ LET entry == dir.entries[scan.index]
     IN scan' = [scan EXCEPT
                   !.index = @ + 1,
                   !.workflows = IF entry.isDirectory /\ entry.workflowJson # Absent
                                   THEN Append(@, entry.name) ELSE @]
  /\ UNCHANGED <<dir, properties, build>>

\* The end of getWorkflows without the test of workflows.length.
GetWorkflowsEndNoCheck ==
  /\ scan.pc = "scan"
  /\ scan.index > Len(dir.entries)
  /\ scan' = [scan EXCEPT !.pc = "returned"]
  /\ UNCHANGED <<dir, properties, build>>

\* After the loop: the error for an empty list, or the options (one per name,
\* its value the name).
GetWorkflowsEnd ==
  /\ scan.pc = "scan"
  /\ scan.index > Len(dir.entries)
  /\ scan' = IF Len(scan.workflows) = 0
               THEN [scan EXCEPT !.pc = "thrown", !.error = ErrNoWorkflows]
               ELSE [scan EXCEPT !.pc = "returned"]
  /\ UNCHANGED <<dir, properties, build>>

DiscoveryInit ==
  /\ dir \in {[exists |-> FALSE, entries |-> <<>>]} \cup
             {[exists |-> TRUE, entries |-> es] :
                es \in {l \in Listings({Absent, Valid, Unparseable}, {NoUi}) :
                          PlainFilesEmpty(l)}}
  /\ scan = ScanIdle
  /\ properties = StaticProperties
  /\ build = BuildIdle

\* ---- loadAndAppendDynamicProperties
\* pathExists(workflowsDir), then readdir.
BuildStart ==
  /\ build.pc \in {"idle", "done"}
  /\ build.builds < MaxBuilds
  /\ build' = IF dir.exists
                THEN [pc |-> "scan", index |-> 1, builds |-> build.builds + 1]
                ELSE [pc |-> "done", index |-> 0, builds |-> build.builds + 1]
  /\ UNCHANGED <<dir, scan, properties>>

\* const dynamicProperty = {...prop, displayOptions: {show: {selectedWorkflow: [wfName]}}}
DynamicProperty(prop, wfName) == [name |-> prop, show |-> wfName]

\* One iteration of the loop over the entries: the properties of a readable
\* ui_inputs.json are pushed; anything else is skipped or logged.
BuildEntry ==
  /\ build.pc = "scan"
  /\ build.index <= Len(dir.entries)
  /\ LET entry == dir.entries[build.index]
         props == IF entry.uiInputs.hasProperties THEN entry.uiInputs.properties ELSE <<>>
     IN properties' =
          IF entry.isDirectory /\ entry.uiInputs.state = Valid
            THEN properties \o [j \in DOMAIN props |-> DynamicProperty(props[j], entry.name)]
            ELSE properties
  /\ build' = [build EXCEPT !.index = @ + 1]
  /\ UNCHANGED <<dir, scan>>

BuildEnd ==
  /\ build.pc = "scan"
  /\ build.index > Len(dir.entries)
  /\ build' = [build EXCEPT !.pc = "done"]
  /\ UNCHANGED <<dir, scan, properties>>

RegistryInit ==
  /\ dir \in {[exists |-> FALSE, entries |-> <<>>]} \cup
             {[exists |-> TRUE, entries |-> es] :
                es \in {l \in Listings({Valid}, UiFiles) :
                          /\ PlainFilesEmpty(l)
                          /\ \A k \in DOMAIN l : l[k].isDirectory => l[k].workflowJson = Valid}}
  /\ scan = ScanIdle
  /\ properties = StaticProperties
  /\ build = BuildIdle

\* ---------------------------------------------------- the specifications
ComposeIdle ==
  /\ tplHeap = <<>>
  /\ tplRoot = Undefined
  /\ tplDoc = Undefined
  /\ cInputs = <<>>
  /\ cMappings = <<>>
  /\ cBatch = 1
  /\ cResult = NoResult

ExecIdle ==
  /\ items = 1
  /\ continueOnFail = FALSE
  /\ pc = "loop"
  /\ itemIndex = 0
  /\ loc = NoLocals
  /\ returnData = <<>>
  /\ thrown = NoError
  /\ itemError = [i \in Items |-> NoError]
  /\ submits = [i \in Items |-> 0]
  /\ sockets = [i \in Items |-> 0]
  /\ timers = [i \in Items |-> 0]
  /\ response = [i \in Items |-> Undefined]
  /\ ws = [i \in Items |-> NoWebSocket]
  /\ timeout = [i \in Items |-> "none"]
  /\ promise = [i \in Items |-> NoPromise]
  /\ firstEvent = [i \in Items |-> "none"]
  /\ lateEvent = [i \in Items |-> FALSE]

Init == ExecInit /\ ComposeIdle /\ RepoIdle

Next ==
  \/ StartItem
  \/ LoadConfig
  \/ SubmitReturns
  \/ SubmitFails
  \/ \E i \in Items : TimerFires(i)
  \/ \E i \in Items : \E data \in Deliverable(i) : OnMessage(i, data)
  \/ \E i \in Items : OnError(i)
  \/ PrepareBinaryReturns
  \/ PrepareBinaryFails
  \/ Return

\* execute on a batch of input items.
Spec == Init /\ [][Next]_vars

WaitNext ==
  \/ Next
  \/ \E i \in Items : ChannelCloses(i)

\* execute with a service that may also close a channel without a word, and
\* an event loop that runs the callback of a timer that stays armed.
FairSpec == Init /\ [][WaitNext]_vars /\ \A i \in Items : WF_vars(TimerFires(i))

ComposeStart == ComposeInit /\ ExecIdle /\ RepoIdle

ComposeNext ==
  \/ ComposeCall /\ UNCHANGED <<hostVars, execVars, jobVars, repoVars>>
  \/ SupplyInputs /\ UNCHANGED <<hostVars, execVars, jobVars, repoVars>>

\* applyUserInputsToWorkflow called any number of times on one loaded template.
ComposeSpec == ComposeStart /\ [][ComposeNext]_vars

\* -------------------------------------- the result processing on its own
\* A record without a format property: undefined equals none of the tags.
NoFormat == "(none)"
RecordFormats == {"binary", "filePath", "text", "other", NoFormat}
\* The data of a record: base64 text, the empty string, none, a number.
RecordData == {Str("AAAA"), Str(""), Undefined, Num(5)}
ResultRecords == [format : RecordFormats, data : RecordData]
\* The payloads a channel may deliver: one record, or a batch of records some
\* of which may be null.
ResultMessages ==
  {Message(Single(r)) : r \in ResultRecords} \cup
  {Message(Multiple(rs)) :
     rs \in UNION {[1..n -> ResultRecords \cup {RecNull}] : n \in 0..MaxRecords}}

\* The job of the one input item was submitted and its channel is open.
AwaitStart ==
  /\ items = 1
  /\ continueOnFail \in BOOLEAN
  /\ pc = "await"
  /\ itemIndex = 0
  /\ loc = [NoLocals EXCEPT !.jobId = JobIdAbc]
  /\ returnData = <<>>
  /\ thrown = NoError
  /\ itemError = [i \in Items |-> NoError]
  /\ submits = [i \in Items |-> IF i = 0 THEN 1 ELSE 0]
  /\ sockets = [i \in Items |-> IF i = 0 THEN 1 ELSE 0]
  /\ timers = [i \in Items |-> IF i = 0 THEN 1 ELSE 0]
  /\ response = [i \in Items |-> IF i = 0 THEN Obj([job_id |-> JobIdAbc]) ELSE Undefined]
  /\ ws = [i \in Items |->
            IF i = 0 THEN [NoWebSocket EXCEPT !.created = TRUE, !.url = JobIdAbc]
            ELSE NoWebSocket]
  /\ timeout = [i \in Items |-> IF i = 0 THEN "armed" ELSE "none"]
  /\ promise = [i \in Items |->
                 IF i = 0 THEN [state |-> "pending", value |-> Undefined] ELSE NoPromise]
  /\ firstEvent = [i \in Items |-> "none"]
  /\ lateEvent = [i \in Items |-> FALSE]

NormalizeStart == AwaitStart /\ ComposeIdle /\ RepoIdle

\* The first message arrives with any payload; then the result processing.
ResultArrives ==
  /\ promise[0].state = "pending"
  /\ \E data \in ResultMessages : OnMessage(0, data)

NormalizeNext ==
  \/ ResultArrives
  \/ PrepareBinaryReturns
  \/ PrepareBinaryFails
  \/ Return

\* The result processing of execute over every shape of payload.
NormalizeSpec == NormalizeStart /\ [][NormalizeNext]_vars

\* ==================================================== the claims: execute
\* The output records of input item i, in the order pushed.
ItemRecords(i) == SelectSeq(returnData, LAMBDA r : r.item = i)
ErrorRecords(i) == SelectSeq(returnData, LAMBDA r : r.item = i /\ r.kind = "error")
\* Item j was taken up by the loop and has its outcome.
Processed(j) == itemError[j] # NoError \/ ItemRecords(j) # <<>>
LaterItems(i) == {j \in Items : i < j /\ j < items}

\* C1: when the timer of job i fires before any message or error of its channel,
\* the await ends with the timeout error, close() was called on the channel, no
\* result record exists for the job, and this stays so whatever arrives later.
C1_TimeoutContract ==
  \A i \in Items : firstEvent[i] = "timer" =>
    /\ timeout[i] = "fired"
    /\ ws[i].closeCalled
    /\ promise[i] = [state |-> "rejected", value |-> Str(ErrTimeout)]
    /\ itemError[i] = ErrTimeout
    /\ IF continueOnFail
         THEN ItemRecords(i) = << ErrorItem(ErrTimeout, i) >>
         ELSE ItemRecords(i) = <<>> /\ thrown = ErrTimeout /\ pc = "thrown"

\* The timer fired first and the channel delivered something afterwards.
C1_Witness ==
  \E i \in Items : firstEvent[i] = "timer" /\ lateEvent[i] /\ ws[i].firstMessage = Undefined

\* C2: when a message is the first event of job i, close() was called, the timer
\* is cancelled, the promise is settled by parsing that message (resolved with
\* the parsed payload; a text that does not parse rejects with the parse
\* error), and the timeout error is never reported for the job.
C2_FirstMessageWins ==
  \A i \in Items : firstEvent[i] = "message" =>
    /\ ws[i].closeCalled
    /\ timeout[i] = "cleared"
    /\ itemError[i] # ErrTimeout
    /\ thrown # ErrTimeout \/ itemIndex # i
    /\ ErrorItem(ErrTimeout, i) \notin {returnData[k] : k \in DOMAIN returnData}
    /\ promise[i] = IF ws[i].firstMessage.parses
                      THEN [state |-> "resolved", value |-> ws[i].firstMessage.value]
                      ELSE [state |-> "rejected", value |-> Str(ErrParse)]

\* A first message held a batch payload, its records were output, and more
\* arrived on the channel later.
C2_Witness ==
  \E i \in Items :
    /\ firstEvent[i] = "message"
    /\ lateEvent[i]
    /\ promise[i].state = "resolved"
    /\ Len(ItemRecords(i)) = 3

\* The submit request of job i failed: httpRequest threw, or the body it
\* returned carries no job_id.
SubmitFailed(i) ==
  \/ itemError[i] = ErrHttp
  \/ response[i].t # "undef" /\ DocField(response[i], "job_id").t # "str"

\* C3: whenever the submit request fails (it throws, or its response carries no
\* job_id), an error is reported for the job, no channel is opened, no timer is
\* started and no acknowledgment or result record is emitted for it.
C3_SubmissionFailureStops ==
  \A i \in Items : SubmitFailed(i) =>
    /\ itemError[i] # NoError
    /\ ws[i] = NoWebSocket
    /\ timeout[i] = "none"
    /\ ItemRecords(i) = ErrorRecords(i)

\* The step in which httpRequest returned a body with a job_id in webhook mode.
WebhookSubmitStep ==
  /\ pc = "submit"
  /\ loc.operationMode = "webhook"
  /\ response[itemIndex] = Undefined
  /\ DocField(response'[itemIndex], "job_id").t = "str"

\* C4: in webhook mode a successful submit ends the job at once with exactly one
\* record, {status "submitted", the job id of the response}; a job acknowledged
\* this way has no channel and no timer, ever.
C4_FireAndForget ==
  /\ [](\A i \in Items :
          (\E k \in DOMAIN returnData :
              returnData[k].item = i /\ returnData[k].kind = "submitted") =>
            /\ ItemRecords(i) = << SubmittedItem(DocField(response[i], "job_id"), i) >>
            /\ ws[i] = NoWebSocket
            /\ timeout[i] = "none"
            /\ promise[i] = NoPromise)
  /\ [][WebhookSubmitStep =>
          /\ returnData' = Append(returnData, SubmittedItem(JobIdAbc, itemIndex))
          /\ itemIndex' = itemIndex + 1
          /\ pc' = "loop"
          /\ UNCHANGED <<ws, timeout, promise, itemError, thrown>>]_vars

\* Two jobs were acknowledged in one execution.
C4_Witness ==
  /\ pc = "returned"
  /\ returnData = << SubmittedItem(JobIdAbc, 0), SubmittedItem(JobIdAbc, 1) >>

\* C5: an error of item i is caught at the item boundary: with continueOnFail
\* exactly one record carrying its message is pushed for i and the loop goes on
\* to every later item; without it the error leaves execute and no later item
\* is submitted.
C5_PerItemErrorPolicy ==
  \A i \in Items : itemError[i] # NoError =>
    IF continueOnFail
      THEN /\ ErrorRecords(i) = << ErrorItem(itemError[i], i) >>
           /\ itemIndex > i
           /\ thrown = NoError
           /\ pc = "returned" => \A j \in LaterItems(i) : Processed(j)
      ELSE /\ thrown = itemError[i]
           /\ pc = "thrown"
           /\ itemIndex = i
           /\ ErrorRecords(i) = <<>>
           /\ \A j \in LaterItems(i) : submits[j] = 0 /\ ~Processed(j)

\* The first item failed in its await and the second was submitted after it.
C5_Witness ==
  /\ continueOnFail
  /\ itemError[0] = ErrConnection
  /\ submits[1] = 1

\* Loading the documents of the template selected for item i failed.
LoadFailed(i) == itemError[i] \in {ErrLoadConfig, ErrLoadWorkflowConfiguration}

WellFormed(slug) ==
  LET d == Disk[slug]
  IN /\ d.workflow.ok
     /\ d.ui.ok
     /\ DocField(d.workflow.doc, "workflow").t # "undef"
     /\ DocField(d.ui.doc, "mappings").t # "undef"
     /\ DocField(d.ui.doc, "properties").t # "undef"

\* C7: a job is submitted only for a template whose configuration is complete:
\* when workflow.json or ui_inputs.json is absent, unparseable or lacks its
\* graph, mappings or properties, an error is reported and nothing is submitted.
C7_StrictConfiguration ==
  pc = "submit" => WellFormed(loc.selectedWorkflow)

\* =================================================== the claims: composer
\* The value a JSON tree holds at a path; undefined where the path ends early.
RECURSIVE ValueAt(_, _)
ValueAt(tree, path) ==
  IF path = <<>> THEN tree
  ELSE IF tree.t = "obj" /\ Head(path) \in DOMAIN tree.v
    THEN ValueAt(tree.v[Head(path)], Tail(path))
  ELSE Undefined

\* Tree a equals tree b but for the location `path` (and the objects created
\* along it where b holds none).
RECURSIVE SameExceptAt(_, _, _)
SameExceptAt(a, b, path) ==
  IF path = <<>> \/ b.t # "obj" THEN TRUE
  ELSE /\ a.t = "obj"
       /\ DOMAIN a.v = DOMAIN b.v \cup {Head(path)}
       /\ \A k \in DOMAIN b.v \ {Head(path)} : a.v[k] = b.v[k]
       /\ Head(path) \in DOMAIN b.v =>
            SameExceptAt(a.v[Head(path)], b.v[Head(path)], Tail(path))

\* No part of the path but the last names a primitive (non-null) value of the tree.
RECURSIVE PathWritable(_, _)
PathWritable(tree, path) ==
  \/ Len(path) <= 1
  \/ LET next == ValueAt(tree, <<Head(path)>>)
     IN \/ next.t \in {"undef", "null"}
        \/ next.t = "obj" /\ PathWritable(next, Tail(path))

CallMade == cResult.status # "none"
IsNode(nodeId) == nodeId \in DOMAIN tplDoc.v
Reserved(m) == m.name = BatchParam /\ m.path = BatchPath
Location(m) == <<m.nodeId>> \o m.path
\* The last call had m as its one mapping entry, on a node of the graph, with a
\* value supplied for its parameter.
OneEntryCall ==
  /\ CallMade
  /\ Len(cMappings) = 1
  /\ IsNode(cMappings[1].nodeId)
  /\ InputOf(cInputs, cMappings[1].name).t # "undef"
RoundTrip(m) ==
  /\ cResult.status = "ok"
  /\ ValueAt(cResult.graph, Location(m)) = InputOf(cInputs, m.name)
  /\ SameExceptAt(cResult.graph, tplDoc, Location(m))

\* C8 as stated: for any template graph, any mapping entry whose nodeId is in
\* the graph and any supplied value v that is not unset, the composed graph holds
\* v at the entry's location and equals the template everywhere else.
C8_RoundTripAnyEntry == OneEntryCall => RoundTrip(cMappings[1])

\* C8 amended: the same, for every entry that is not the reserved binding
\* batchSize -> inputs.batch_size and whose path runs through no primitive
\* value of the template node.
C8_MappingRoundTrip ==
  (/\ OneEntryCall
   /\ ~Reserved(cMappings[1])
   /\ PathWritable(tplDoc.v[cMappings[1].nodeId], cMappings[1].path))
    => RoundTrip(cMappings[1])

\* A value was written below an existing object that holds other fields.
C8_Witness ==
  /\ OneEntryCall
  /\ cMappings[1].path = <<"inputs", "a", "b">>
  /\ tplDoc.v[cMappings[1].nodeId] = NodeNested
  /\ cResult.status = "ok"
  /\ ValueAt(cResult.graph, Location(cMappings[1])) = Str("hello")

\* C9: applyUserInputsToWorkflow never mutates the Graph Document it is given:
\* after any sequence of calls the template reads as it did when loaded.
C9_TemplateImmutable == JsonStringify(tplHeap, tplRoot) = tplDoc

\* A call wrote a value and created the objects of its path on the way.
C9_Witness ==
  /\ CallMade
  /\ cResult.status = "ok"
  /\ \E j \in DOMAIN cMappings :
       /\ cMappings[j].path = <<"inputs", "a", "b">>
       /\ IsNode(cMappings[j].nodeId)
       /\ ValueAt(tplDoc, <<cMappings[j].nodeId, "inputs">>).t = "undef"
       /\ ValueAt(cResult.graph, Location(cMappings[j])).t = "str"

Dangling(m) == ~IsNode(m.nodeId)
WithoutDangling == SelectSeq(cMappings, LAMBDA m : ~Dangling(m))

\* C10: a mapping entry whose nodeId is no node of the graph is skipped: the call
\* returns what it returns without that entry (no error of its own, the other
\* entries applied), and no node is added.
C10_DanglingSkipped ==
  (CallMade /\ \E j \in DOMAIN cMappings : Dangling(cMappings[j])) =>
    LET p == JsonParse(<<>>, tplDoc)
        r == ApplyUserInputsToWorkflow(p.heap, p.val, cInputs, WithoutDangling, cBatch)
    IN /\ cResult.status = r.status
       /\ cResult.graph = JsonStringify(r.heap, r.modified)
       /\ WithoutDangling = <<>> => cResult.status = "ok" /\ cResult.graph = tplDoc
       /\ cResult.status = "ok" => DOMAIN cResult.graph.v = DOMAIN tplDoc.v

\* A call whose first entry dangles and whose second entry was applied.
C10_Witness ==
  /\ CallMade
  /\ Len(cMappings) = 2
  /\ Dangling(cMappings[1])
  /\ ~Dangling(cMappings[2])
  /\ cResult.status = "ok"
  /\ cResult.graph # tplDoc

\* Entry j is the only entry of the mapping set that names its location.
SoleWriter(j) ==
  \A k \in DOMAIN cMappings : k # j => Location(cMappings[k]) # Location(cMappings[j])

\* C11: when the reserved parameter batchSize is bound to inputs.batch_size of
\* a node of the graph, that location holds the batchSize argument in the
\* returned graph, whatever userInputs holds under the name batchSize; the
\* binding alone never makes the call fail.
C11_BatchPrecedence ==
  CallMade =>
    /\ \A j \in DOMAIN cMappings :
         (/\ cResult.status = "ok"
          /\ Reserved(cMappings[j])
          /\ IsNode(cMappings[j].nodeId)
          /\ SoleWriter(j))
           => ValueAt(cResult.graph, Location(cMappings[j])) = Num(cBatch)
    /\ (Len(cMappings) = 1 /\ Reserved(cMappings[1])) => cResult.status = "ok"

\* The binding was applied while userInputs held another number under batchSize.
C11_Witness ==
  /\ CallMade
  /\ cResult.status = "ok"
  /\ InputOf(cInputs, BatchParam) = Num(7)
  /\ \E j \in DOMAIN cMappings :
       /\ Reserved(cMappings[j])
       /\ IsNode(cMappings[j].nodeId)
       /\ ValueAt(tplDoc, Location(cMappings[j])) # Num(cBatch)
       /\ ValueAt(cResult.graph, Location(cMappings[j])) = Num(cBatch)

\* The orders in which the entries of a mapping set can be enumerated.
Reorderings(ms) ==
  {[i \in DOMAIN ms |-> ms[p[i]]] :
     p \in {q \in [DOMAIN ms -> DOMAIN ms] : \A i, j \in DOMAIN ms : q[i] = q[j] => i = j}}

\* What a call on the template as loaded returns for the mapping set ms.
ComposedWith(ms) ==
  LET p == JsonParse(<<>>, tplDoc)
      r == ApplyUserInputsToWorkflow(p.heap, p.val, cInputs, ms, cBatch)
  IN [status |-> r.status, graph |-> JsonStringify(r.heap, r.modified)]

\* C12: for the same template, values and batchSize the call returns the same
\* graph whatever the order in which the entries of the mapping set are
\* enumerated, also when two entries name the same location.
C12_KeyOrderIndependent ==
  CallMade => \A ms \in Reorderings(cMappings) : ComposedWith(ms) = cResult

\* ------------------------------------- the claims: the dynamic parameters
\* The job of the current item is composed and handed to httpRequest.
JobComposed == pc = "submit"
\* The sections of the template selected for the current item.
TemplateProps == DynamicPropertiesOf(Disk[loc.selectedWorkflow].ui.doc)
TemplateMappings == MappingsOf(Disk[loc.selectedWorkflow].ui.doc)
TemplateGraph == DocField(Disk[loc.selectedWorkflow].workflow.doc, "workflow")
IsDeclared(n) == n \in PropNames(TemplateProps)
\* The entries of the mapping set that bind a declared parameter other than
\* through the reserved batch binding.
ParamBindings ==
  {j \in DOMAIN TemplateMappings :
     IsDeclared(TemplateMappings[j].name) /\ ~Reserved(TemplateMappings[j])}
Written(m) == ValueAt(loc.finalWorkflow, Location(m))

\* C13: at the mapped location of every parameter declared with type number
\* the composed graph holds a number, never a string, whatever the host
\* returned for the parameter and whatever default was substituted.
C13_NumericSemantics ==
  JobComposed =>
    \A j \in ParamBindings :
      PropNamed(TemplateProps, TemplateMappings[j].name).type = "number"
        => Written(TemplateMappings[j]).t = "num"

\* The values the host can return for a parameter.
Returned(prop) == HostOutcomes(prop) \ {HostThrows}

\* C14: a failing retrieval of a dynamic parameter does not fail the item, and
\* every value gathered for a parameter, and every value a non-batch mapping
\* writes into the composed graph, is what the host returned for it or its
\* declared default (nothing written where there is none), never another value.
C14_RetrievalFallback ==
  JobComposed =>
    /\ \A n \in DOMAIN loc.userInputs :
         loc.userInputs[n] \in
           Returned(PropNamed(TemplateProps, n)) \cup {PropNamed(TemplateProps, n).default}
    /\ \A j \in ParamBindings :
         LET m == TemplateMappings[j]
             prop == PropNamed(TemplateProps, m.name)
         IN Written(m) \in
              Returned(prop) \cup
                {IF prop.default.t = "undef" THEN ValueAt(TemplateGraph, Location(m))
                 ELSE prop.default}

\* ------------------------------------------ the claims: result processing
\* The payload the first message of job i held, and its records.
PayloadOf(i) == ws[i].firstMessage.value
RecordsOf(i) == ResultsOf(PayloadOf(i))
\* The output items of job i, the record of the catch clause left out.
Outputs(i) == SelectSeq(returnData, LAMBDA r : r.item = i /\ r.kind # "error")
\* The processing of the payload of job i is over.
Normalized(i) ==
  /\ firstEvent[i] = "message"
  /\ ws[i].firstMessage.parses
  /\ PayloadOf(i).t = "payload"
  /\ itemIndex > i \/ pc = "thrown"
\* The output item holds what the record holds.
Carries(output, rec) ==
  IF output.kind = "unexpected" THEN output.val = RawResult(rec)
  ELSE rec # RecNull /\ output.val = rec.data

\* C15: a batch payload of N records yields exactly N output items in the
\* order of the records, a single payload exactly one; no record's content
\* makes the processing raise (a failure of the host's prepareBinaryData set
\* aside).
C15_BatchFanOut ==
  \A i \in Items :
    (Normalized(i) /\ itemError[i] # ErrPrepare) =>
      /\ itemError[i] = NoError
      /\ Len(Outputs(i)) = Len(RecordsOf(i))
      /\ \A k \in DOMAIN RecordsOf(i) : Carries(Outputs(i)[k], RecordsOf(i)[k])

Tags == {"binary", "filePath", "text"}

\* C16: of a payload processed without an error, a record yields the error
\* shape with rawResult = the record exactly when its format is missing or
\* none of binary, filePath, text; a record tagged text, filePath or binary
\* yields the item of its tag with the record's data, whatever the data is.
C16_PerRecordMapping ==
  \A i \in Items :
    (Normalized(i) /\ itemError[i] = NoError) =>
      /\ Len(Outputs(i)) = Len(RecordsOf(i))
      /\ \A k \in DOMAIN RecordsOf(i) :
           LET rec == RecordsOf(i)[k]
               output == Outputs(i)[k]
           IN /\ output.kind = "unexpected" <=> rec.format \notin Tags
              /\ output.kind = "unexpected" => output.val = RawResult(rec)
              /\ rec.format \in Tags =>
                   output = [kind |-> rec.format, item |-> i, val |-> rec.data]

\* ------------------------------------------- the claims: the repository
DiscoveryStart == DiscoveryInit /\ ComposeIdle /\ ExecIdle

DiscoveryNext ==
  \/ GetWorkflowsStart /\ UNCHANGED <<composeVars, hostVars, execVars, jobVars>>
  \/ GetWorkflowsEntry /\ UNCHANGED <<composeVars, hostVars, execVars, jobVars>>
  \/ GetWorkflowsEnd /\ UNCHANGED <<composeVars, hostVars, execVars, jobVars>>

\* getWorkflows over any workflows directory.
DiscoverySpec == DiscoveryStart /\ [][DiscoveryNext]_vars

RegistryStart == RegistryInit /\ ComposeIdle /\ ExecIdle

RegistryNext ==
  \/ BuildStart /\ UNCHANGED <<composeVars, hostVars, execVars, jobVars>>
  \/ BuildEntry /\ UNCHANGED <<composeVars, hostVars, execVars, jobVars>>
  \/ BuildEnd /\ UNCHANGED <<composeVars, hostVars, execVars, jobVars>>

\* loadAndAppendDynamicProperties run on one node, over any workflows directory.
RegistrySpec == RegistryStart /\ [][RegistryNext]_vars

\* The names of the subdirectories that hold a workflow.json, in readdir order.
TemplateNames ==
  LET ts == SelectSeq(dir.entries, LAMBDA e : e.isDirectory /\ e.workflowJson # Absent)
  IN [k \in DOMAIN ts |-> ts[k].name]
ScanOver == scan.pc \in {"returned", "thrown"}

\* C17: getWorkflows over a directory none of whose subdirectories holds a
\* workflow.json ends in an error and never returns an empty list; a list it
\* returns is non-empty and holds exactly the subdirectories with a
\* workflow.json.
C17_DiscoveryEmptiness ==
  /\ (ScanOver /\ TemplateNames = <<>>) =>
       scan.pc = "thrown" /\ scan.error \in {ErrNoWorkflows, ErrNoDirectory}
  /\ scan.pc = "returned" => scan.workflows # <<>> /\ scan.workflows = TemplateNames
  /\ scan.pc = "thrown" => TemplateNames = <<>>

\* A scan over an existing directory with entries, none of them a template,
\* ended in the error.
C17_Witness ==
  /\ scan.pc = "thrown"
  /\ scan.error = ErrNoWorkflows
  /\ Len(dir.entries) = 2
  /\ dir.entries[1].isDirectory

\* C18: a subdirectory whose workflow.json is present but cannot be parsed is
\* not in the list getWorkflows returns, while the other templates are.
C18_UnparseableExcluded ==
  scan.pc = "returned" =>
    /\ \A k \in DOMAIN dir.entries :
         dir.entries[k].workflowJson = Unparseable
           => \A j \in DOMAIN scan.workflows : scan.workflows[j] # dir.entries[k].name
    /\ \A k \in DOMAIN dir.entries :
         (dir.entries[k].isDirectory /\ dir.entries[k].workflowJson = Valid)
           => \E j \in DOMAIN scan.workflows : scan.workflows[j] = dir.entries[k].name

\* The dynamic entries of the property list.
DynamicEntries == SelectSeq(properties, LAMBDA e : e.show # "")
\* The (parameter name, owning template) pairs the repository declares.
DeclaredPairs ==
  UNION {{DynamicProperty(dir.entries[k].uiInputs.properties[j], dir.entries[k].name) :
            j \in DOMAIN dir.entries[k].uiInputs.properties} :
         k \in {l \in DOMAIN dir.entries :
                  dir.entries[l].isDirectory /\ dir.entries[l].uiInputs.state = Valid}}

\* C19: after any number of builds over an unchanged repository the property
\* list holds exactly one entry per (parameter name, owning template) pair the
\* repository declares, and the static properties before them.
C19_IdempotentRebuild ==
  build.pc = "done" =>
    /\ \A i, j \in DOMAIN DynamicEntries : DynamicEntries[i] = DynamicEntries[j] => i = j
    /\ {DynamicEntries[i] : i \in DOMAIN DynamicEntries} = DeclaredPairs
    /\ SubSeq(properties, 1, Len(StaticProperties)) = StaticProperties

\* ----------------------------------------------- the claims: ordering
\* The await phase of job i has begun: its channel or timer exists, or one of
\* their callbacks ran.
AwaitBegun(i) == ws[i].created \/ timeout[i] # "none" \/ firstEvent[i] # "none"

\* C20: the channel of a job is opened, and any message, error or timer expiry
\* of the job is processed, only after the submit request was made and has
\* returned a job identifier, and the channel is addressed by that identifier.
C20_SubmitBeforeAwait ==
  \A i \in Items :
    AwaitBegun(i) =>
      /\ submits[i] = 1
      /\ DocField(response[i], "job_id").t = "str"
      /\ ws[i].created
      /\ ws[i].url = DocField(response[i], "job_id")

\* C21 (No retries): for each input item, whatever failures occur, httpRequest
\* is called at most once, at most one WebSocket is constructed and at most one
\* timer is started; an item that failed gets no second attempt of any of them.
C21_NoRetries ==
  \A i \in Items :
    /\ submits[i] <= 1
    /\ sockets[i] <= 1
    /\ timers[i] <= 1

\* Both items failed, in the submit and in the wait, and one attempt was made
\* for each.
C21_Witness ==
  /\ items = 2
  /\ continueOnFail
  /\ pc = "returned"
  /\ itemError[0] \in {ErrTimeout, ErrConnection, ErrParse}
  /\ itemError[1] = ErrHttp
  /\ submits[0] = 1 /\ sockets[0] = 1 /\ timers[0] = 1
  /\ submits[1] = 1 /\ sockets[1] = 0 /\ timers[1] = 0

\* ------------------------------------------ the claims: failures of the wait
\* The text of a message is a Result Payload: JSON of a single or batch record.
ValidPayload(data) == data.parses /\ data.value.t = "payload"

\* C22 (Result parse error): whenever the first message of job i is no valid
\* Result Payload (text that is no JSON, or JSON that is no single or batch
\* result record), the job fails with the parse error, no output item is made
\* from the message, and nothing is attempted again.
C22_ResultParseError ==
  \A i \in Items :
    (firstEvent[i] = "message" /\ ~ValidPayload(ws[i].firstMessage)) =>
      /\ itemError[i] = ErrParse
      /\ promise[i] = [state |-> "rejected", value |-> Str(ErrParse)]
      /\ Outputs(i) = <<>>
      /\ submits[i] = 1 /\ sockets[i] = 1 /\ timers[i] = 1

\* C23 (Transport error): when the channel of job i reports an error before
\* any message and before the timer fires, the job fails with the connection
\* error, its timer is cancelled and never fires, so no timeout error is
\* reported afterwards, and no result is returned for the job.
C23_TransportError ==
  \A i \in Items :
    firstEvent[i] = "error" =>
      /\ itemError[i] = ErrConnection
      /\ promise[i] = [state |-> "rejected", value |-> Str(ErrConnection)]
      /\ timeout[i] = "cleared"
      /\ Outputs(i) = <<>>
      /\ \A k \in DOMAIN ErrorRecords(i) : ErrorRecords(i)[k].val = Str(ErrConnection)
      /\ Len(ErrorRecords(i)) = IF continueOnFail THEN 1 ELSE 0
      /\ ~continueOnFail => thrown = ErrConnection

\* The channel of the first job reported an error first, another callback of
\* the job ran after it, and execute returned.
C23_Witness ==
  /\ firstEvent[0] = "error"
  /\ lateEvent[0]
  /\ continueOnFail
  /\ pc = "returned"
  /\ itemError[0] = ErrConnection

\* C24: the await phase always terminates.  Once the job of item i was
\* submitted and execute waits on its promise, the promise is eventually
\* settled (a result, or the timeout, connection or parse error), given only
\* that an armed timer eventually fires; also when the service closes the
\* channel without any message or error, and when nothing ever arrives.
C24_AwaitTerminates ==
  \A i \in Items :
    (pc = "await" /\ itemIndex = i) ~> (promise[i].state \in {"resolved", "rejected"})

\* The service closed the channel of the first job without a word and the
\* timer ended the wait.
C24_Witness ==
  /\ ws[0].ended
  /\ firstEvent[0] = "timer"
  /\ ~lateEvent[0]
  /\ promise[0] = [state |-> "rejected", value |-> Str(ErrTimeout)]
  /\ itemError[0] = ErrTimeout
  /\ pc # "await"

\* The wait on the job of item i is over: its promise is settled.
Finished(i) == promise[i].state \in {"resolved", "rejected"}

\* C25: no resource is left behind by the await phase.  Whenever the wait on a
\* job is over (a message was received, the timer fired, or the channel
\* reported an error), close() was called on the job's channel and its timer
\* is fired or cancelled: no finished job has an open channel or a pending
\* timer.
C25_NoResourceLeft ==
  \A i \in Items :
    Finished(i) =>
      /\ ws[i].closeCalled
      /\ timeout[i] \in {"fired", "cleared"}

====
